---- MODULE Spec2Model ----
(***************************************************************************)
(* Model of the MCQ generation-and-validation pipeline of quizzer:         *)
(*   scripts/validate.py           MCQValidator (per-item and set-level)    *)
(*   scripts/generate_mcqs_hf.py   hosted-inference generator and main      *)
(*   scripts/generate_mcqs_api.py  completion-service generator and main    *)
(* Python strings are sequences of one-character strings; Python values    *)
(* carry a type tag t; a dict is a function from its keys to values.       *)
(***************************************************************************)
EXTENDS Integers, Sequences, FiniteSets, TLC

VARIABLES
    item,        \* SpecItem: the mcq handed to validate_mcq_structure
    itemErrors,  \* SpecItem: the error list it returned
    itemPc,      \* SpecItem: "input" before the call, "checked" after
    listArg,     \* SpecList: the value handed to validate_mcq_list
    listResult,  \* SpecList: what the call produced
    listPc,      \* SpecList: "input" before the call, "checked" after
    backend,     \* Spec: "api" (generate_mcqs_api.py) or "hf" (generate_mcqs_hf.py)
    req,         \* Spec: extracted_text.txt and the command-line arguments
    pc,          \* Spec: where main() is
    prompt,      \* Spec: what create_mcq_prompt returned
    reply,       \* Spec: what the backend answered to the POST
    response,    \* Spec: what generate_text returned
    parseError,  \* Spec: the exception the parsing block caught, or "none"
    mcqs,        \* Spec: the list the generator returned
    output,      \* Spec: mcq_output.json
    status,      \* Spec: exit status of the process, -1 while it runs
    calls,       \* Spec: the collaborators invoked so far, in order
    fbArg,       \* SpecFallback: the arguments of create_fallback_mcqs
    fbResult,    \* SpecFallback: the list it returned
    fbPc,        \* SpecFallback: "input" before the call, "done" after
    textArg,     \* SpecText: the value handed to validate_text
    textResult,  \* SpecText: what the call produced
    textPc,      \* SpecText: "input" before the call, "checked" after
    wfArg,       \* SpecWorkflow: the arguments of validate_workflow_inputs
    wfResult,    \* SpecWorkflow: what the call produced
    wfPc,        \* SpecWorkflow: "input" before the call, "checked" after
    parseArg,    \* SpecParse: the backend path and the two response texts
    parseResult, \* SpecParse: what the parsing block made of each text
    parsePc      \* SpecParse: "input" before parsing, "parsed" after

itemVars == <<item, itemErrors, itemPc>>
listVars == <<listArg, listResult, listPc>>
mainVars == <<backend, req, pc, prompt, reply, response, parseError, mcqs,
              output, status, calls>>

fbVars == <<fbArg, fbResult, fbPc>>
textVars == <<textArg, textResult, textPc>>
wfVars == <<wfArg, wfResult, wfPc>>
parseVars == <<parseArg, parseResult, parsePc>>

vars == <<item, itemErrors, itemPc, listArg, listResult, listPc,
          backend, req, pc, prompt, reply, response, parseError, mcqs,
          output, status, calls, fbArg, fbResult, fbPc,
          textArg, textResult, textPc, wfArg, wfResult, wfPc,
          parseArg, parseResult, parsePc>>

----------------------------------------------------------------------------
(* Bounds of the model *)

\* longest run of non-blank characters in a generated string value
MaxStrLen == 11
\* most blanks put on each side of a generated string value
MaxPad == 1
\* longest list handed to validate_mcq_list
MaxItems == 5

----------------------------------------------------------------------------
(* Python strings *)

WS == {" ", "\n"}

RECURSIVE LStrip(_)
LStrip(s) == IF s # <<>> /\ Head(s) \in WS THEN LStrip(Tail(s)) ELSE s

RECURSIVE RStrip(_)
RStrip(s) ==
    IF s # <<>> /\ s[Len(s)] \in WS THEN RStrip(SubSeq(s, 1, Len(s) - 1)) ELSE s

\* str.strip()
Strip(s) == RStrip(LStrip(s))

\* the string made of n copies of the character c
Rep(c, n) == [i \in 1..n |-> c]

\* str.startswith(prefix)
StartsWith(s, prefix) ==
    Len(s) >= Len(prefix) /\ SubSeq(s, 1, Len(prefix)) = prefix

----------------------------------------------------------------------------
(* Python values *)

PyStr(s) == [t |-> "str", s |-> s, l |-> <<>>]
PyInt == [t |-> "int", s |-> <<>>, l |-> <<>>]
PyList(l) == [t |-> "list", s |-> <<>>, l |-> l]

----------------------------------------------------------------------------
(* validate.py: MCQValidator.validate_mcq_structure *)

MinQuestionLen == 10
NumOptions == 4
MinOptionLen == 3
MinExplanationLen == 10

required_fields == <<"question", "options", "correct_answer", "explanation">>
valid_answers == {PyStr(<<"A">>), PyStr(<<"B">>), PyStr(<<"C">>), PyStr(<<"D">>)}

ErrMissing == "Missing required field"
ErrQuestion == "Question must be a non-empty string with at least 10 characters"
ErrOptionsCount == "Options must be a list with exactly 4 items"
ErrOption == "Option must be a non-empty string with at least 3 characters"
ErrAnswer == "Correct answer must be one of: ['A', 'B', 'C', 'D']"
ErrExplanation == "Explanation must be a non-empty string with at least 10 characters"

\* one error string: the message, the field it names, the option number it names
Err(msg, field, idx) == [msg |-> msg, field |-> field, idx |-> idx]

\* the loop left at the first absent field
MissingFieldErrors_Mut(mcq) ==
    LET absent == SelectSeq(required_fields, LAMBDA f : f \notin DOMAIN mcq)
    IN  IF absent = <<>> THEN <<>> ELSE <<Err(ErrMissing, absent[1], 0)>>

\* the errors of validate.py:26-28, one per absent field, in list order
MissingFieldErrors(mcq) ==
    LET absent == SelectSeq(required_fields, LAMBDA f : f \notin DOMAIN mcq)
    IN  [i \in 1..Len(absent) |-> Err(ErrMissing, absent[i], 0)]

\* the length test off by one
NotStrOfLen_Mut(v, n) == v.t # "str" \/ Len(Strip(v.s)) <= n

\* not isinstance(v, str) or len(v.strip()) < n
NotStrOfLen(v, n) == v.t # "str" \/ Len(Strip(v.s)) < n

QuestionErrors(mcq) ==
    IF NotStrOfLen(mcq["question"], MinQuestionLen)
    THEN <<Err(ErrQuestion, "", 0)>>
    ELSE <<>>

OptionCountBad(opts) == opts.t # "list" \/ Len(opts.l) # NumOptions

OptionBad(option) == NotStrOfLen(option, MinOptionLen)

\* validate.py:41-43: one error per bad option, in enumeration order
PerOptionErrors(opts) ==
    LET idx == SelectSeq([i \in 1..Len(opts.l) |-> i],
                         LAMBDA i : OptionBad(opts.l[i]))
    IN  [k \in 1..Len(idx) |-> Err(ErrOption, "", idx[k])]

\* the per-option loop run without the else
OptionsErrors_Mut(mcq) ==
    IF OptionCountBad(mcq["options"])
    THEN <<Err(ErrOptionsCount, "", 0)>> \o PerOptionErrors(mcq["options"])
    ELSE PerOptionErrors(mcq["options"])

OptionsErrors(mcq) ==
    IF OptionCountBad(mcq["options"])
    THEN <<Err(ErrOptionsCount, "", 0)>>
    ELSE PerOptionErrors(mcq["options"])

AnswerErrors(mcq) ==
    IF mcq["correct_answer"] \notin valid_answers
    THEN <<Err(ErrAnswer, "", 0)>>
    ELSE <<>>

ExplanationErrors(mcq) ==
    IF NotStrOfLen(mcq["explanation"], MinExplanationLen)
    THEN <<Err(ErrExplanation, "", 0)>>
    ELSE <<>>

validate_mcq_structure(mcq) ==
    IF MissingFieldErrors(mcq) # <<>>
    THEN MissingFieldErrors(mcq)
    ELSE QuestionErrors(mcq) \o OptionsErrors(mcq)
            \o AnswerErrors(mcq) \o ExplanationErrors(mcq)

----------------------------------------------------------------------------
(* Inputs of the per-item check *)

\* p blanks, n non-blank characters, p blanks
Pad(p, n) == Rep(" ", p) \o Rep("x", n) \o Rep(" ", p)

TextLens == {0, MinQuestionLen - 1, MinQuestionLen, MaxStrLen}

\* values tried for question and for explanation
TextVals == {PyStr(Pad(p, n)) : p \in 0..MaxPad, n \in TextLens} \cup {PyInt}

Labels == <<"A", "B", "C", "D", "E">>

\* the option texts tried at position i: labelled as the prompt asks,
\* unlabelled, and too short once trimmed
Labelled(i) == PyStr(<<Labels[i], ")", " ">> \o Rep("x", MinOptionLen))
Unlabelled == PyStr(Rep("x", MinOptionLen))
TooShort == PyStr(Pad(MaxPad, MinOptionLen - 1))

OptionKinds(i) == {Labelled(i), Unlabelled, TooShort}

OptionVals ==
    {PyList(<<a, b, c, d>>) : a \in OptionKinds(1), b \in OptionKinds(2),
                              c \in OptionKinds(3), d \in OptionKinds(4)}
    \cup {PyList(<<PyInt, Labelled(2), Labelled(3), Labelled(4)>>),
          PyList(<<Labelled(1), Labelled(1), Labelled(1), Labelled(1)>>),
          PyList(<<Labelled(1), Labelled(2), Labelled(3)>>),
          PyList(<<TooShort, PyInt, Unlabelled>>),
          PyList(<<Labelled(1), Labelled(2), Labelled(3), Labelled(4), Labelled(5)>>),
          PyList(<<TooShort, TooShort, TooShort, TooShort, TooShort>>),
          PyList(<<>>),
          PyStr(Rep("x", NumOptions)),
          PyInt}

AnswerVals ==
    {PyStr(<<Labels[i]>>) : i \in 1..5} \cup {PyStr(<<"a">>), PyStr(<<" ", "A">>), PyInt}

FullItems ==
    {[question |-> q, options |-> o, correct_answer |-> a, explanation |-> e] :
        q \in TextVals, o \in OptionVals, a \in AnswerVals, e \in TextVals}

FieldSet == {required_fields[i] : i \in 1..Len(required_fields)}

\* a dict holding the fields D of the full item m
Restrict(m, D) == [f \in D |-> m[f]]

\* the dicts tried: the fields of a full item, all of them or only some
IsItemInput(v) == \E m \in FullItems, D \in SUBSET FieldSet : v = Restrict(m, D)

----------------------------------------------------------------------------
(* validate.py: MCQValidator.validate_mcq_list *)

ErrNotList == "MCQs must be provided as a list"
ErrNoMcqs == "No MCQs provided"
WarnFailed == "More than 20% of questions failed validation"

\* the argument of validate_mcq_list: a list of dicts, or a value of another
\* type; n is what len() gives for a str or a dict
ArgList(items) == [t |-> "list", n |-> Len(items), items |-> items]
ArgOther(t, n) == [t |-> t, n |-> n, items |-> <<>>]

\* types len() accepts; on the others it raises TypeError
HasLen(arg) == arg.t \in {"list", "str", "dict", "tuple"}

\* validate.py:59-68
NewResult(arg) ==
    [raised |-> FALSE, valid |-> TRUE, errors |-> <<>>, warnings |-> <<>>,
     total_questions |-> arg.n, valid_questions |-> 0, invalid_questions |-> 0,
     structure_calls |-> 0]

\* the call ended in an exception: there is no result
Raised ==
    [raised |-> TRUE, valid |-> FALSE, errors |-> <<>>, warnings |-> <<>>,
     total_questions |-> 0, valid_questions |-> 0, invalid_questions |-> 0,
     structure_calls |-> 0]

\* before the call there is no result
NoResult ==
    [raised |-> FALSE, valid |-> FALSE, errors |-> <<>>, warnings |-> <<>>,
     total_questions |-> 0, valid_questions |-> 0, invalid_questions |-> 0,
     structure_calls |-> 0]

\* f"Question {i+1}: {error}"
QuestionError(q, e) == [q |-> q, msg |-> e.msg, field |-> e.field, idx |-> e.idx]
ListError(msg) == [q |-> 0, msg |-> msg, field |-> "", idx |-> 0]

\* validate.py:81-88, from item i on
RECURSIVE ValidateEach(_, _, _)
ValidateEach(list, i, result) ==
    IF i > Len(list) THEN result
    ELSE LET errors == validate_mcq_structure(list[i])
             counted == [result EXCEPT !.structure_calls = @ + 1]
         IN  ValidateEach(list, i + 1,
                IF errors # <<>>
                THEN [counted EXCEPT
                        !.invalid_questions = @ + 1,
                        !.errors = @ \o [k \in 1..Len(errors) |->
                                            QuestionError(i, errors[k])]]
                ELSE [counted EXCEPT !.valid_questions = @ + 1])

\* the overall verdict tolerating one invalid item
OverallValidation_Mut(result) ==
    IF result.invalid_questions > 1 THEN [result EXCEPT !.valid = FALSE] ELSE result

\* validate.py:91-92
OverallValidation(result) ==
    IF result.invalid_questions > 0 THEN [result EXCEPT !.valid = FALSE] ELSE result

AddWarnings_Mut(result, n) ==
    IF 5 * result.valid_questions <= 4 * n
    THEN [result EXCEPT !.warnings = Append(@, WarnFailed)]
    ELSE result

\* validate.py:95-96; valid_questions < len(mcqs) * 0.8, in whole numbers
AddWarnings(result, n) ==
    IF 5 * result.valid_questions < 4 * n
    THEN [result EXCEPT !.warnings = Append(@, WarnFailed)]
    ELSE result

validate_mcq_list(arg) ==
    IF ~HasLen(arg) THEN Raised
    ELSE IF arg.t # "list"
    THEN [NewResult(arg) EXCEPT !.valid = FALSE, !.errors = <<ListError(ErrNotList)>>]
    ELSE IF Len(arg.items) = 0
    THEN [NewResult(arg) EXCEPT !.valid = FALSE, !.errors = <<ListError(ErrNoMcqs)>>]
    ELSE AddWarnings(OverallValidation(ValidateEach(arg.items, 1, NewResult(arg))),
                     Len(arg.items))

----------------------------------------------------------------------------
(* Inputs of the set-level check *)

GoodText == PyStr(Rep("x", MinQuestionLen))
GoodOptions == PyList(<<Labelled(1), Labelled(2), Labelled(3), Labelled(4)>>)

\* an item meeting every constraint
GoodItem(answer) ==
    [question |-> GoodText, options |-> GoodOptions,
     correct_answer |-> PyStr(<<answer>>), explanation |-> GoodText]

\* the items lists are made of: two good ones, one with one fault, one with
\* several faults, one with two fields absent
ItemPalette ==
    {GoodItem("A"), GoodItem("C"),
     [GoodItem("A") EXCEPT !["question"] = PyStr(Pad(MaxPad, MinQuestionLen - 1))],
     [GoodItem("E") EXCEPT !["options"] = PyList(<<TooShort, Labelled(2), PyInt, TooShort>>),
                           !["explanation"] = PyInt],
     Restrict(GoodItem("B"), {"question", "correct_answer"})}

ListInputs ==
    {ArgList(l) : l \in UNION {[1..k -> ItemPalette] : k \in 0..MaxItems}}
    \cup {ArgOther("int", 0), ArgOther("null", 0), ArgOther("tuple", 2)}
    \cup {ArgOther(t, n) : t \in {"str", "dict"}, n \in 0..MaxItems}

----------------------------------------------------------------------------
(* Python text helpers used by the generators *)

Letters ==
    {"a", "b", "c", "d", "e", "f", "g", "h", "i", "j", "k", "l", "m",
     "n", "o", "p", "q", "r", "s", "t", "u", "v", "w", "x", "y", "z",
     "A", "B", "C", "D", "E", "F", "G", "H", "I", "J", "K", "L", "M",
     "N", "O", "P", "Q", "R", "S", "T", "U", "V", "W", "X", "Y", "Z"}

Digits == <<"0", "1", "2", "3", "4", "5", "6", "7", "8", "9">>
DigitSet == {Digits[i] : i \in 1..10}
DigitVal(c) == (CHOOSE i \in 1..10 : Digits[i] = c) - 1

\* str.isalpha(): non-empty and letters only
IsAlpha(w) == w # <<>> /\ \A i \in 1..Len(w) : w[i] \in Letters

\* str.split(): the maximal runs of non-blank characters, in order
RECURSIVE SplitFrom(_, _, _)
SplitFrom(s, cur, acc) ==
    IF s = <<>> THEN (IF cur = <<>> THEN acc ELSE Append(acc, cur))
    ELSE IF Head(s) \in WS
         THEN SplitFrom(Tail(s), <<>>, IF cur = <<>> THEN acc ELSE Append(acc, cur))
         ELSE SplitFrom(Tail(s), Append(cur, Head(s)), acc)

Split(s) == SplitFrom(s, <<>>, <<>>)

\* the value of a run of decimal digits
RECURSIVE DigitsValue(_, _)
DigitsValue(s, acc) ==
    IF s = <<>> THEN acc ELSE DigitsValue(Tail(s), 10 * acc + DigitVal(Head(s)))

\* int(str): blanks trimmed, an optional sign, then one or more digits;
\* anything else raises ValueError (ok = FALSE)
ParseInt(raw) ==
    LET s == Strip(raw)
        signed == s # <<>> /\ Head(s) \in {"+", "-"}
        body == IF signed THEN Tail(s) ELSE s
    IN  IF body # <<>> /\ \A i \in 1..Len(body) : body[i] \in DigitSet
        THEN [ok |-> TRUE,
              n |-> IF signed /\ Head(s) = "-" THEN 0 - DigitsValue(body, 0)
                    ELSE DigitsValue(body, 0)]
        ELSE [ok |-> FALSE, n |-> 0]

Min(a, b) == IF a < b THEN a ELSE b

\* seq[:n]
Take(seq, n) == SubSeq(seq, 1, Min(n, Len(seq)))

\* position of the first / last occurrence of c in s, 0 when absent
FindFirst(s, c) ==
    IF \E i \in 1..Len(s) : s[i] = c
    THEN CHOOSE i \in 1..Len(s) : s[i] = c /\ \A j \in 1..(i - 1) : s[j] # c
    ELSE 0
FindLast(s, c) ==
    IF \E i \in 1..Len(s) : s[i] = c
    THEN CHOOSE i \in 1..Len(s) : s[i] = c /\ \A j \in (i + 1)..Len(s) : s[j] # c
    ELSE 0

\* str.endswith(suffix)
EndsWith(s, suffix) ==
    Len(s) >= Len(suffix) /\ SubSeq(s, Len(s) - Len(suffix) + 1, Len(s)) = suffix

----------------------------------------------------------------------------
(* generate_mcqs_hf.py: create_fallback_mcqs *)

MinWordLen == 5
MaxImportantWords == 10
MaxFallback == 3

QuestionPrefix ==
    <<"W", "h", "a", "t", " ", "i", "s", " ", "t", "h", "e", " ", "m", "a",
          "i", "n", " ", "t", "o", "p", "i", "c", " ", "r", "e", "l", "a",
          "t", "e", "d", " ", "t", "o", " ", "'">>
QuestionSuffix ==
    <<"'", " ", "i", "n", " ", "t", "h", "e", " ", "t", "e", "x", "t", "?">>
OptionASuffix ==
    <<" ", "i", "s", " ", "a", " ", "k", "e", "y", " ", "c", "o", "n", "c",
          "e", "p", "t">>
OptionBSuffix ==
    <<" ", "i", "s", " ", "m", "e", "n", "t", "i", "o", "n", "e", "d", " ",
          "b", "r", "i", "e", "f", "l", "y">>
OptionCSuffix ==
    <<" ", "i", "s", " ", "n", "o", "t", " ", "i", "m", "p", "o", "r", "t",
          "a", "n", "t">>
OptionDSuffix ==
    <<" ", "i", "s", " ", "u", "n", "d", "e", "f", "i", "n", "e", "d">>
ExplanationPrefix ==
    <<"T", "h", "e", " ", "t", "e", "x", "t", " ", "d", "i", "s", "c", "u",
          "s", "s", "e", "s", " ">>
ExplanationSuffix ==
    <<" ", "a", "s", " ", "a", "n", " ", "i", "m", "p", "o", "r", "t", "a",
          "n", "t", " ", "c", "o", "n", "c", "e", "p", "t", ".">>

\* the answer given as a position instead of a letter
FallbackMcq_Mut(word) ==
    [question |-> PyStr(QuestionPrefix \o word \o QuestionSuffix),
     options |-> PyList(<<PyStr(<<"A", ")", " ">> \o word \o OptionASuffix),
                          PyStr(<<"B", ")", " ">> \o word \o OptionBSuffix),
                          PyStr(<<"C", ")", " ">> \o word \o OptionCSuffix),
                          PyStr(<<"D", ")", " ">> \o word \o OptionDSuffix)>>),
     correct_answer |-> PyStr(<<"0">>),
     explanation |-> PyStr(ExplanationPrefix \o word \o ExplanationSuffix)]

\* generate_mcqs_hf.py:164-174
FallbackMcq(word) ==
    [question |-> PyStr(QuestionPrefix \o word \o QuestionSuffix),
     options |-> PyList(<<PyStr(<<"A", ")", " ">> \o word \o OptionASuffix),
                          PyStr(<<"B", ")", " ">> \o word \o OptionBSuffix),
                          PyStr(<<"C", ")", " ">> \o word \o OptionCSuffix),
                          PyStr(<<"D", ")", " ">> \o word \o OptionDSuffix)>>),
     correct_answer |-> PyStr(<<"A">>),
     explanation |-> PyStr(ExplanationPrefix \o word \o ExplanationSuffix)]

\* generate_mcqs_hf.py:158
ImportantWords(text) ==
    Take(SelectSeq(Split(text), LAMBDA w : Len(w) > MinWordLen /\ IsAlpha(w)),
         MaxImportantWords)

\* generate_mcqs_hf.py:161-175, iteration i (0-based) of range(limit)
RECURSIVE FallbackLoop(_, _, _, _)
FallbackLoop(i, limit, important_words, list) ==
    IF i >= limit THEN list
    ELSE FallbackLoop(i + 1, limit, important_words,
            IF i < Len(important_words)
            THEN Append(list, FallbackMcq(important_words[i + 1]))
            ELSE list)

\* the loop bound taken from num_questions alone
create_fallback_mcqs_Mut(text, difficulty, num_questions) ==
    FallbackLoop(0, num_questions, ImportantWords(text), <<>>)

\* generate_mcqs_hf.py:157-177
create_fallback_mcqs(text, difficulty, num_questions) ==
    FallbackLoop(0, Min(num_questions, MaxFallback), ImportantWords(text), <<>>)

----------------------------------------------------------------------------
(* json.loads on the characters the model's responses are written in:       *)
(* "M" is a JSON object literal, "7" a JSON number, "[" "," "]" build       *)
(* arrays, blanks may separate tokens; every other character is not JSON.   *)

\* what the object literal "M" decodes to
DecodedObject ==
    [question |-> PyStr(Rep("x", MinQuestionLen)),
     options |-> PyList(<<Labelled(1), Labelled(2), Labelled(3), Labelled(4)>>),
     correct_answer |-> PyStr(<<"B">>),
     explanation |-> PyStr(Rep("x", MinExplanationLen))]

RECURSIVE SkipWs(_, _)
SkipWs(s, i) == IF i <= Len(s) /\ s[i] \in WS THEN SkipWs(s, i + 1) ELSE i

ParseFail == [ok |-> FALSE, next |-> 0, val |-> PyInt]
ParseOk(next, val) == [ok |-> TRUE, next |-> next, val |-> val]

RECURSIVE ParseValue(_, _)
RECURSIVE ParseElems(_, _, _)

\* a JSON value starting at or after position i
ParseValue(s, i) ==
    LET j == SkipWs(s, i)
    IN  IF j > Len(s) THEN ParseFail
        ELSE IF s[j] = "M" THEN ParseOk(j + 1, DecodedObject)
        ELSE IF s[j] = "7" THEN ParseOk(j + 1, PyInt)
        ELSE IF s[j] = "["
        THEN LET k == SkipWs(s, j + 1)
             IN  IF k <= Len(s) /\ s[k] = "]"
                 THEN ParseOk(k + 1, PyList(<<>>))
                 ELSE ParseElems(s, j + 1, <<>>)
        ELSE ParseFail

\* the elements of an array after "[" or ",", up to the closing "]"
ParseElems(s, i, acc) ==
    LET r == ParseValue(s, i)
    IN  IF ~r.ok THEN ParseFail
        ELSE LET k == SkipWs(s, r.next)
             IN  IF k > Len(s) THEN ParseFail
                 ELSE IF s[k] = "," THEN ParseElems(s, k + 1, Append(acc, r.val))
                 ELSE IF s[k] = "]" THEN ParseOk(k + 1, PyList(Append(acc, r.val)))
                 ELSE ParseFail

\* json.loads(s): ok = FALSE stands for JSONDecodeError
json_loads(s) ==
    LET r == ParseValue(s, 1)
    IN  IF r.ok /\ SkipWs(s, r.next) > Len(s)
        THEN [ok |-> TRUE, val |-> r.val]
        ELSE [ok |-> FALSE, val |-> PyInt]

\* isinstance(v, list)
IsList(v) == "t" \in DOMAIN v /\ v.t = "list"

----------------------------------------------------------------------------
(* The backend clients *)

NetFailShapes == {"net_timeout", "net_connection", "net_http"}

\* what the HTTP POST can come back with: a network failure, a body that is
\* not JSON, a JSON list (empty, or whose first element is a dict with a text,
\* a dict without one, a dict with a non-string one, or no dict), a JSON dict
\* (with a text under the key the client reads, without, with a non-string
\* one), or a JSON scalar
Reply(shape, text) == [shape |-> shape, text |-> text]
NoReply == Reply("none", <<>>)

\* what generate_text hands back: it raised, or returned a value that is a
\* string (text) or is not
Returned(text) == [raised |-> FALSE, str |-> TRUE, text |-> text]
ReturnedNonStr == [raised |-> FALSE, str |-> FALSE, text |-> <<>>]
ClientRaised == [raised |-> TRUE, str |-> FALSE, text |-> <<>>]

\* str(result) of a dict: its repr
DictRepr(r) ==
    IF r.shape = "dict_text" THEN <<"{", "'", "e", "'", ":", " ", "'">> \o r.text \o <<"'", "}">>
    ELSE IF r.shape = "dict_non_str" THEN <<"{", "'", "e", "'", ":", " ", "7", "}">>
    ELSE <<"{", "}">>

\* generate_mcqs_hf.py: HuggingFaceClient.generate_text
HfGenerateText(r) ==
    IF r.shape \in NetFailShapes \cup {"not_json", "list_non_dict"} THEN ClientRaised
    ELSE IF r.shape = "list_text" THEN Returned(r.text)
    ELSE IF r.shape = "list_no_text" THEN Returned(<<>>)
    ELSE IF r.shape = "list_non_str" THEN ReturnedNonStr
    ELSE IF r.shape = "list_empty" THEN Returned(<<"[", "]">>)
    ELSE IF r.shape = "scalar" THEN Returned(<<"7">>)
    ELSE Returned(DictRepr(r))

\* generate_mcqs_api.py: OllamaAPIClient.generate_text
ApiGenerateText(r) ==
    IF r.shape \in NetFailShapes \cup {"not_json"} THEN ClientRaised
    ELSE IF r.shape = "dict_text" THEN Returned(r.text)
    ELSE IF r.shape = "dict_no_text" THEN Returned(<<>>)
    ELSE IF r.shape = "dict_non_str" THEN ReturnedNonStr
    ELSE ClientRaised

generate_text(b, r) == IF b = "hf" THEN HfGenerateText(r) ELSE ApiGenerateText(r)

----------------------------------------------------------------------------
(* The prompt builders *)

max_length == 2000

\* generate_mcqs_hf.py: create_mcq_prompt; the text is cut at max_length
HfPrompt(text, difficulty, num_questions) ==
    [text |-> IF Len(text) > max_length
              THEN SubSeq(text, 1, max_length) \o <<".", ".", ".">>
              ELSE text,
     difficulty |-> difficulty, num_questions |-> num_questions]

\* generate_mcqs_api.py: create_mcq_prompt
ApiPrompt(text, difficulty, num_questions) ==
    [text |-> text, difficulty |-> difficulty, num_questions |-> num_questions]

create_mcq_prompt(b, text, difficulty, num_questions) ==
    IF b = "hf" THEN HfPrompt(text, difficulty, num_questions)
    ELSE ApiPrompt(text, difficulty, num_questions)

----------------------------------------------------------------------------
(* The parsing blocks of the two generators *)

\* the code-fence markers; the backquote is written ~ here
FenceJson == <<"~", "~", "~", "j", "s", "o", "n">>
Fence == <<"~", "~", "~">>

Parsed(list) == [ok |-> TRUE, mcqs |-> list, error |-> "none"]
ParseRaised(error) == [ok |-> FALSE, mcqs |-> <<>>, error |-> error]

\* json.loads and the isinstance check that follows it
DecodeArray(json_str) ==
    LET d == json_loads(json_str)
    IN  IF ~d.ok THEN ParseRaised("JSONDecodeError")
        ELSE IF ~IsList(d.val) THEN ParseRaised("ValueError")
        ELSE Parsed(d.val.l)

\* generate_mcqs_api.py:167-171
ApiClean(text) ==
    LET stripped == Strip(text)
        opened == IF StartsWith(stripped, FenceJson)
                  THEN SubSeq(stripped, Len(FenceJson) + 1, Len(stripped))
                  ELSE stripped
    IN  IF EndsWith(opened, Fence)
        THEN SubSeq(opened, 1, Len(opened) - Len(Fence))
        ELSE opened

\* generate_mcqs_api.py:165-187
ApiParse(res) ==
    IF ~res.str THEN ParseRaised("AttributeError")
    ELSE DecodeArray(ApiClean(res.text))

\* generate_mcqs_hf.py:123-131
HfExtract(text) ==
    LET stripped == Strip(text)
    IN  IF FindFirst(stripped, "[") # 0 /\ FindFirst(stripped, "]") # 0
        THEN SubSeq(stripped, FindFirst(stripped, "["), FindLast(stripped, "]"))
        ELSE stripped

\* generate_mcqs_hf.py:121-151, up to the except clauses
HfParse(res) ==
    IF ~res.str THEN ParseRaised("AttributeError")
    ELSE DecodeArray(HfExtract(res.text))

ParseOf(b, res) == IF b = "hf" THEN HfParse(res) ELSE ApiParse(res)

----------------------------------------------------------------------------
(* Inputs of a run *)

Word1 == <<"e", "n", "e", "r", "g", "y">>
Word2 == <<"s", "u", "n", "l", "i", "g", "h", "t">>
Word3 == <<"b", "i", "o", "l", "o", "g", "y">>
Word4 == <<"m", "i", "n", "e", "r", "a", "l">>
ShortWord == <<"l", "i", "g", "h", "t">>
MixedWord == <<"c", "h", "e", "m", "1", "c", "a", "l">>

\* extracted_text.txt: empty, blank, without a usable word, with two usable
\* words, with four
SourceTexts ==
    {<<>>,
     <<" ", "\n", " ">>,
     ShortWord \o <<" ">> \o MixedWord,
     Word2 \o <<" ">> \o ShortWord \o <<"\n">> \o Word1,
     <<" ">> \o Word1 \o <<" ", " ">> \o Word2 \o <<"\n">> \o MixedWord
          \o <<" ">> \o Word3 \o <<" ">> \o Word4 \o <<"\n">>}

Difficulties == {"easy", "medium", "hard", "extreme"}

\* the num_questions argument as typed
NumArgs ==
    {<<"0">>, <<"1">>, <<"2">>, <<"5">>, <<"2", "0">>, <<"2", "1">>, <<"2", "5">>,
     <<"-", "1">>, <<" ", "3">>, <<"a", "b", "c">>, <<>>}

\* texts a backend returns
ResponseTexts ==
    {<<"[", "M", ",", "M", "]">>,
     <<"[", "M", "]">>,
     <<"[", "]">>,
     <<"~", "~", "~", "j", "s", "o", "n", "\n", "[", "M", ",", "M", "]", "\n", "~", "~", "~">>,
     <<"~", "~", "~", "\n", "[", "M", "]", "\n", "~", "~", "~">>,
     <<"p", "p", " ", "[", "M", ",", "M", "]", " ", "p">>,
     <<"7">>,
     <<"M">>,
     <<"p", "p">>,
     <<>>,
     <<"[", "M", ",">>,
     <<"p", "]", "p", "[", "p">>,
     <<" ", " ", "[", "M", ",", " ", "7", "]", "\n">>,
     <<"~", "~", "~", "j", "s", "o", "n", "[", "M", "]">>,
     <<"[", "M", "]", "~", "~", "~">>,
     <<"[", "[", "M", "]", ",", "7", "]">>,
     <<"[", "M", "]", " ", "p", " ", "[", "M", "]">>}

ReplyShapes ==
    NetFailShapes \cup
    {"not_json", "list_empty", "list_no_text", "list_non_str", "list_non_dict",
     "dict_no_text", "dict_non_str", "scalar"}

Replies ==
    {Reply(k, <<>>) : k \in ReplyShapes}
    \cup {Reply(k, t) : k \in {"list_text", "dict_text"}, t \in ResponseTexts}

----------------------------------------------------------------------------
(* Each specification runs one part of the program; the others are at rest *)

ItemIdle == item = <<>> /\ itemErrors = <<>> /\ itemPc = "off"
ListIdle == listArg = ArgOther("null", 0) /\ listResult = NoResult /\ listPc = "off"

NoRequest == [exists |-> FALSE, text |-> <<>>, difficulty |-> "", num_questions |-> <<>>]
NoPrompt == [text |-> <<>>, difficulty |-> "", num_questions |-> 0]
NoOutput == [written |-> FALSE, mcqs |-> <<>>]

MainStart ==
    /\ pc = "Idle"
    /\ prompt = NoPrompt
    /\ reply = NoReply
    /\ response = ClientRaised
    /\ parseError = "none"
    /\ mcqs = <<>>
    /\ output = NoOutput
    /\ status = -1
    /\ calls = <<>>

MainIdle == backend = "none" /\ req = NoRequest /\ MainStart

FallbackIdle == fbArg = <<>> /\ fbResult = <<>> /\ fbPc = "off"
TextIdle == textArg = <<>> /\ textResult = <<>> /\ textPc = "off"
WorkflowIdle == wfArg = <<>> /\ wfResult = <<>> /\ wfPc = "off"
ParseIdle == parseArg = <<>> /\ parseResult = <<>> /\ parsePc = "off"

----------------------------------------------------------------------------
(* SpecItem: validate_mcq_structure applied to one item *)

InitItem ==
    /\ IsItemInput(item)
    /\ itemErrors = <<>>
    /\ itemPc = "input"
    /\ ListIdle
    /\ MainIdle
    /\ FallbackIdle /\ TextIdle /\ WorkflowIdle /\ ParseIdle

CheckItem ==
    /\ itemPc = "input"
    /\ itemErrors' = validate_mcq_structure(item)
    /\ itemPc' = "checked"
    /\ UNCHANGED <<item, listVars, mainVars, fbVars, textVars, wfVars, parseVars>>

NextItem == CheckItem

SpecItem == InitItem /\ [][NextItem]_vars

----------------------------------------------------------------------------
(* SpecList: validate_mcq_list applied to one value *)

InitList ==
    /\ listArg \in ListInputs
    /\ listResult = NoResult
    /\ listPc = "input"
    /\ ItemIdle
    /\ MainIdle
    /\ FallbackIdle /\ TextIdle /\ WorkflowIdle /\ ParseIdle

CheckList ==
    /\ listPc = "input"
    /\ listResult' = validate_mcq_list(listArg)
    /\ listPc' = "checked"
    /\ UNCHANGED <<listArg, itemVars, mainVars, fbVars, textVars, wfVars, parseVars>>

NextList == CheckList

SpecList == InitList /\ [][NextList]_vars

----------------------------------------------------------------------------
(* Spec: one run of main() of either generator script.  The states are the  *)
(* orchestrator's: Idle, PromptBuilt, BackendCalled, Parsed, ParseFailed,   *)
(* FallbackApplied, Done, Aborted.  mcq_output.json is taken to be writable.*)

Init ==
    /\ backend \in {"api", "hf"}
    /\ req \in [exists : BOOLEAN, text : SourceTexts, difficulty : Difficulties,
                num_questions : NumArgs]
    /\ MainStart
    /\ ItemIdle
    /\ ListIdle
    /\ FallbackIdle /\ TextIdle /\ WorkflowIdle /\ ParseIdle

\* int(args.num_questions)
NumQuestions == ParseInt(req.num_questions).n

\* sys.exit(1), reached directly or through main's except Exception
Abort ==
    /\ pc' = "Aborted"
    /\ status' = 1

\* main up to the backend call: extracted_text.txt must exist and hold more
\* than blanks, int(args.num_questions) must not raise; then the client is
\* made and the prompt built
BuildPrompt ==
    /\ pc = "Idle"
    /\ IF ~req.exists \/ Strip(req.text) = <<>> \/ ~ParseInt(req.num_questions).ok
       THEN Abort /\ UNCHANGED prompt
       ELSE /\ pc' = "PromptBuilt"
            /\ prompt' = create_mcq_prompt(backend, req.text, req.difficulty, NumQuestions)
            /\ UNCHANGED status
    /\ UNCHANGED <<backend, req, reply, response, parseError, mcqs, output, calls>>
    /\ UNCHANGED <<itemVars, listVars, fbVars, textVars, wfVars, parseVars>>

\* client.generate_text: the POST and the normalisation of what comes back;
\* an exception it raises is outside the generator's try block and reaches main
CallBackend ==
    /\ pc = "PromptBuilt"
    /\ \E r \in Replies :
        /\ reply' = r
        /\ calls' = Append(calls, "backend")
        /\ response' = generate_text(backend, r)
        /\ IF generate_text(backend, r).raised
           THEN Abort
           ELSE pc' = "BackendCalled" /\ UNCHANGED status
    /\ UNCHANGED <<backend, req, prompt, parseError, mcqs, output>>
    /\ UNCHANGED <<itemVars, listVars, fbVars, textVars, wfVars, parseVars>>

\* the try block of the generator, up to its except clauses
ParseResponse ==
    /\ pc = "BackendCalled"
    /\ LET p == ParseOf(backend, response)
       IN  IF p.ok
           THEN pc' = "Parsed" /\ mcqs' = p.mcqs /\ UNCHANGED parseError
           ELSE pc' = "ParseFailed" /\ parseError' = p.error /\ UNCHANGED mcqs
    /\ UNCHANGED <<backend, req, prompt, reply, response, output, status, calls>>
    /\ UNCHANGED <<itemVars, listVars, fbVars, textVars, wfVars, parseVars>>

\* the except clauses re-raising, as the other generator's do
ApplyFallback_Mut ==
    /\ pc = "ParseFailed"
    /\ backend = "hf"
    /\ Abort
    /\ UNCHANGED <<backend, req, prompt, reply, response, parseError, mcqs, output, calls>>
    /\ UNCHANGED <<itemVars, listVars, fbVars, textVars, wfVars, parseVars>>

\* generate_mcqs_hf.py:141-151: both except clauses return the fallback
ApplyFallback ==
    /\ pc = "ParseFailed"
    /\ backend = "hf"
    /\ mcqs' = create_fallback_mcqs(req.text, req.difficulty, NumQuestions)
    /\ calls' = Append(calls, "fallback")
    /\ pc' = "FallbackApplied"
    /\ UNCHANGED <<backend, req, prompt, reply, response, parseError, output, status>>
    /\ UNCHANGED <<itemVars, listVars, fbVars, textVars, wfVars, parseVars>>

\* the except clauses substituting a fallback, as the other generator's do
PropagateParseError_Mut ==
    /\ pc = "ParseFailed"
    /\ backend = "api"
    /\ mcqs' = create_fallback_mcqs(req.text, req.difficulty, NumQuestions)
    /\ calls' = Append(calls, "fallback")
    /\ pc' = "FallbackApplied"
    /\ UNCHANGED <<backend, req, prompt, reply, response, parseError, output, status>>
    /\ UNCHANGED <<itemVars, listVars, fbVars, textVars, wfVars, parseVars>>

\* generate_mcqs_api.py:181-187: both except clauses re-raise, main exits 1
PropagateParseError ==
    /\ pc = "ParseFailed"
    /\ backend = "api"
    /\ Abort
    /\ UNCHANGED <<backend, req, prompt, reply, response, parseError, mcqs, output, calls>>
    /\ UNCHANGED <<itemVars, listVars, fbVars, textVars, wfVars, parseVars>>

\* main: json.dump(mcqs) to mcq_output.json and normal exit
Persist ==
    /\ pc \in {"Parsed", "FallbackApplied"}
    /\ output' = [written |-> TRUE, mcqs |-> mcqs]
    /\ calls' = Append(calls, "persist")
    /\ status' = 0
    /\ pc' = "Done"
    /\ UNCHANGED <<backend, req, prompt, reply, response, parseError, mcqs>>
    /\ UNCHANGED <<itemVars, listVars, fbVars, textVars, wfVars, parseVars>>

Next ==
    \/ BuildPrompt
    \/ CallBackend
    \/ ParseResponse
    \/ ApplyFallback
    \/ PropagateParseError
    \/ Persist

Spec == Init /\ [][Next]_vars

\* the steps that follow parsing wait for nothing outside the process: once
\* one of them can be taken it is taken
FairSpec ==
    /\ Spec
    /\ WF_vars(ApplyFallback)
    /\ WF_vars(PropagateParseError)
    /\ WF_vars(Persist)

----------------------------------------------------------------------------
(* Properties of a run *)

InCalls(c) == \E i \in 1..Len(calls) : calls[i] = c

\* the response text did not decode, or decoded to something that is no array
TextParseFailed == parseError \in {"JSONDecodeError", "ValueError"}

HfTextParseFailed == backend = "hf" /\ TextParseFailed

\* C1: on the hosted-inference path, when the returned text fails to decode
\* or decodes to a non-array, no error propagates: the fallback generator is
\* called with the original text, difficulty and count, its result is what
\* the generator returns, and the run ends in Done with that result written
\* and status 0, never in Aborted.
C1_HfParseFailureFallsBack ==
    /\ [](HfTextParseFailed =>
            /\ pc \in {"ParseFailed", "FallbackApplied", "Done"}
            /\ pc \in {"FallbackApplied", "Done"} =>
                  /\ InCalls("fallback")
                  /\ mcqs = create_fallback_mcqs(req.text, req.difficulty,
                                                 ParseInt(req.num_questions).n)
            /\ pc = "Done" =>
                  /\ output = [written |-> TRUE, mcqs |-> mcqs]
                  /\ status = 0)
    /\ (HfTextParseFailed ~> pc = "Done")

\* a hosted-inference run whose text decoded to a non-array ended in Done
\* with fallback questions written
C1_Witness ==
    /\ backend = "hf" /\ parseError = "ValueError"
    /\ pc = "Done" /\ status = 0
    /\ output.written /\ Len(output.mcqs) >= 1
    /\ InCalls("fallback")

\* C2: on the hosted-inference path a network failure of the backend call
\* (timeout, connection error, non-2xx status) leads to the fallback and to
\* Done, not to Aborted.
C2_HfNetworkFailureFallsBack ==
    (backend = "hf" /\ reply.shape \in NetFailShapes) => pc # "Aborted"

\* the failures C3 lists: network failure, undecodable reply, text that does
\* not decode, text that decodes to a non-array
ApiFailure ==
    /\ backend = "api"
    /\ reply.shape \in NetFailShapes \cup {"not_json"} \/ TextParseFailed

\* C3: on the completion-service path each of these failures is fatal: the
\* run ends in Aborted with a non-zero status, the fallback generator is
\* never invoked and nothing is written.
C3_ApiFailuresAreFatal ==
    /\ [](backend = "api" => ~InCalls("fallback"))
    /\ [](ApiFailure =>
            /\ pc \in {"ParseFailed", "Aborted"}
            /\ ~output.written /\ ~InCalls("persist")
            /\ pc = "Aborted" => status # 0)
    /\ (ApiFailure ~> (pc = "Aborted" /\ status # 0))

\* a completion-service run whose text decoded to a non-array was aborted
C3_Witness ==
    /\ backend = "api" /\ parseError = "ValueError"
    /\ pc = "Aborted" /\ status = 1 /\ ~output.written

\* the request meets the data model: count in 1..20, difficulty in the enum
RequestValid ==
    /\ ParseInt(req.num_questions).ok
    /\ ParseInt(req.num_questions).n \in 1..20
    /\ req.difficulty \in {"easy", "medium", "hard"}

\* C4: a request whose count is outside 1..20 or whose difficulty is outside
\* the enum is rejected before any backend call: no run issues a backend
\* call for it.
C4_BadRequestNeverReachesBackend ==
    InCalls("backend") => RequestValid

\* C5: Done is reached only after the set-level Validator has been run on
\* the MCQ set that is written.
C5_DoneOnlyAfterValidated ==
    pc = "Done" =>
        \E i, j \in 1..Len(calls) :
            i < j /\ calls[i] = "validate" /\ calls[j] = "persist"

----------------------------------------------------------------------------
(* Properties of the per-item check *)

ItemChecked == itemPc = "checked"
HasAllFields(m) == DOMAIN m = {"question", "options", "correct_answer", "explanation"}

\* how many errors of the list carry the message
CountErr(errs, msg) == Cardinality({i \in 1..Len(errs) : errs[i].msg = msg})

\* v is a string of at least n characters once trimmed
IsStrAtLeast(v, n) == v.t = "str" /\ Len(Strip(v.s)) >= n

QuestionOK(m) == IsStrAtLeast(m["question"], 10)
OptionsAreFour(m) == m["options"].t = "list" /\ Len(m["options"].l) = 4
OptionsOK(m) ==
    OptionsAreFour(m) /\ \A i \in 1..4 : IsStrAtLeast(m["options"].l[i], 3)
AnswerOK(m) ==
    m["correct_answer"] \in {PyStr(<<c>>) : c \in {"A", "B", "C", "D"}}
ExplanationOK(m) == IsStrAtLeast(m["explanation"], 10)

ShortOptions(m) == {i \in 1..Len(m["options"].l) : ~IsStrAtLeast(m["options"].l[i], 3)}

\* C8: for an item with all four fields the error list is empty exactly when
\* question and explanation are strings of at least 10 trimmed characters,
\* options is a list of exactly 4 strings of at least 3 trimmed characters and
\* correct_answer is one of A, B, C, D; each violated constraint contributes
\* its own error, whatever the other fields hold.
C8_StructureConstraints ==
    (ItemChecked /\ HasAllFields(item)) =>
        /\ (itemErrors = <<>>) <=>
              (QuestionOK(item) /\ OptionsOK(item) /\ AnswerOK(item) /\ ExplanationOK(item))
        /\ CountErr(itemErrors, ErrQuestion) = (IF QuestionOK(item) THEN 0 ELSE 1)
        /\ CountErr(itemErrors, ErrAnswer) = (IF AnswerOK(item) THEN 0 ELSE 1)
        /\ CountErr(itemErrors, ErrExplanation) = (IF ExplanationOK(item) THEN 0 ELSE 1)
        /\ CountErr(itemErrors, ErrOptionsCount) = (IF OptionsAreFour(item) THEN 0 ELSE 1)
        /\ CountErr(itemErrors, ErrOption) =
              (IF OptionsAreFour(item) THEN Cardinality(ShortOptions(item)) ELSE 0)
        /\ CountErr(itemErrors, ErrMissing) = 0

\* an item whose only fault is correct_answer "E" got exactly the answer error;
\* its question is exactly 10 characters long once trimmed
C8_Witness ==
    /\ ItemChecked /\ HasAllFields(item)
    /\ item["correct_answer"] = PyStr(<<"E">>)
    /\ item["question"].t = "str" /\ Len(Strip(item["question"].s)) = 10
    /\ Len(itemErrors) = 1
    /\ itemErrors[1].msg = ErrAnswer

\* C9: every item the per-item check accepts has its four options prefixed
\* with the labels A), B), C), D) in that order.
C9_AcceptedOptionsAreLabelled ==
    (ItemChecked /\ itemErrors = <<>>) =>
        \A i \in 1..4 :
            StartsWith(item["options"].l[i].s, <<Labels[i], ")">>)

OptionsCountWrong(m) == m["options"].t # "list" \/ Len(m["options"].l) # 4

\* C10 as stated: any item whose options value is not a list of exactly 4
\* gets exactly one options-count error and no per-option error.
C10_AnyItemWithBadOptionCount ==
    (ItemChecked /\ "options" \in DOMAIN item /\ OptionsCountWrong(item)) =>
        /\ CountErr(itemErrors, ErrOptionsCount) = 1
        /\ CountErr(itemErrors, ErrOption) = 0

\* C10 amended: an item with all four fields present whose options value is
\* not a list of exactly 4 gets exactly one options-count error and no
\* per-option error, whatever the options contain.
C10_BadOptionCount ==
    (ItemChecked /\ HasAllFields(item) /\ OptionsCountWrong(item)) =>
        /\ CountErr(itemErrors, ErrOptionsCount) = 1
        /\ CountErr(itemErrors, ErrOption) = 0

\* five options, each too short, were checked and drew the count error
C10_Witness ==
    /\ ItemChecked /\ HasAllFields(item)
    /\ item["options"].t = "list" /\ Len(item["options"].l) = 5
    /\ \A i \in 1..5 : ~IsStrAtLeast(item["options"].l[i], 3)
    /\ CountErr(itemErrors, ErrOptionsCount) = 1

----------------------------------------------------------------------------
(* Properties of the set-level check *)

ListChecked == listPc = "checked"

\* the item meets every constraint of the data model
ItemAcceptable(m) ==
    HasAllFields(m) /\ QuestionOK(m) /\ OptionsOK(m) /\ AnswerOK(m) /\ ExplanationOK(m)

FailingItems(items) == {i \in 1..Len(items) : validate_mcq_structure(items[i]) # <<>>}

\* C6: for a non-empty list, total_questions is the list length, valid and
\* invalid counts add up to it, invalid_questions counts the items whose
\* per-item check returns errors, valid holds exactly when invalid_questions
\* is 0 and exactly when errors is empty; a list of items that all meet the
\* constraints gives valid, no errors, valid_questions = n and no warnings.
C6_ListStats ==
    (ListChecked /\ listArg.t = "list" /\ Len(listArg.items) >= 1) =>
        LET n == Len(listArg.items)
            r == listResult
        IN  /\ ~r.raised
            /\ r.total_questions = n
            /\ r.valid_questions + r.invalid_questions = r.total_questions
            /\ r.invalid_questions = Cardinality(FailingItems(listArg.items))
            /\ r.valid <=> (r.invalid_questions = 0)
            /\ r.valid <=> (r.errors = <<>>)
            /\ (\A i \in 1..n : ItemAcceptable(listArg.items[i])) =>
                  /\ r.valid
                  /\ r.errors = <<>>
                  /\ r.valid_questions = n
                  /\ r.warnings = <<>>

\* four items that all meet the constraints were validated
C6_Witness ==
    /\ ListChecked /\ listArg.t = "list" /\ Len(listArg.items) = 4
    /\ \A i \in 1..4 : ItemAcceptable(listArg.items[i])
    /\ listResult.valid /\ listResult.valid_questions = 4

\* C7: an empty list, or a value that is no sequence (a number, null, a
\* mapping, a string), gives valid = false and exactly one error, with no
\* per-item check run, no exception, zero counts and no warning.
C7_EmptyOrNotAList ==
    (ListChecked /\ (listArg.t \in {"int", "null", "dict", "str"}
                        \/ (listArg.t = "list" /\ Len(listArg.items) = 0))) =>
        /\ ~listResult.raised
        /\ ~listResult.valid
        /\ Len(listResult.errors) = 1
        /\ listResult.structure_calls = 0
        /\ listResult.valid_questions = 0
        /\ listResult.invalid_questions = 0
        /\ listResult.warnings = <<>>

\* the number of items of the list that meet every constraint
Passing(items) == Cardinality({i \in 1..Len(items) : ItemAcceptable(items[i])})

\* C11: for a non-empty list the warning 'More than 20% of questions failed
\* validation' is added exactly when the number of passing items is strictly
\* less than 80% of the list length (4 of 5 passing gives no warning, 3 of 5
\* gives one); it is the only warning, it is never recorded as an error, and
\* valid depends on invalid_questions alone whether or not it was added.
C11_FailedWarning ==
    (ListChecked /\ listArg.t = "list" /\ Len(listArg.items) >= 1) =>
        LET n == Len(listArg.items)
            r == listResult
            below == 100 * Passing(listArg.items) < 80 * n
        IN  /\ r.warnings = (IF below THEN <<WarnFailed>> ELSE <<>>)
            /\ \A k \in 1..Len(r.errors) : r.errors[k].msg # WarnFailed
            /\ r.valid <=> (r.invalid_questions = 0)
            /\ (n = 5 /\ Passing(listArg.items) = 4) => r.warnings = <<>>
            /\ (n = 5 /\ Passing(listArg.items) = 3) => r.warnings = <<WarnFailed>>

\* five items of which exactly four pass were validated: the list is invalid
\* and carries no warning
C11_Witness ==
    /\ ListChecked /\ listArg.t = "list" /\ Len(listArg.items) = 5
    /\ Passing(listArg.items) = 4
    /\ ~listResult.valid /\ listResult.warnings = <<>>

----------------------------------------------------------------------------
(* Absent fields *)

\* the place of a field in the order question, options, correct_answer,
\* explanation
FieldRank(f) ==
    CASE f = "question" -> 1
      [] f = "options" -> 2
      [] f = "correct_answer" -> 3
      [] f = "explanation" -> 4

AbsentFields(m) == {"question", "options", "correct_answer", "explanation"} \ DOMAIN m

\* C17: for an item lacking one or more of the four required fields the
\* per-item check returns exactly one 'Missing required field' error per
\* absent field, in the order question, options, correct_answer, explanation,
\* and no other error, whatever the fields that are present contain.
C17_MissingFieldsOnly ==
    (ItemChecked /\ AbsentFields(item) # {}) =>
        /\ Len(itemErrors) = Cardinality(AbsentFields(item))
        /\ \A k \in 1..Len(itemErrors) :
              /\ itemErrors[k].msg = ErrMissing
              /\ itemErrors[k].field \in AbsentFields(item)
        /\ \A k \in 1..(Len(itemErrors) - 1) :
              FieldRank(itemErrors[k].field) < FieldRank(itemErrors[k + 1].field)

\* an item with only question and correct_answer, both of them faulty, was
\* checked: the two errors name options and explanation, in that order
C17_Witness ==
    /\ ItemChecked
    /\ DOMAIN item = {"question", "correct_answer"}
    /\ ~IsStrAtLeast(item["question"], 10)
    /\ item["correct_answer"] \notin valid_answers
    /\ Len(itemErrors) = 2
    /\ itemErrors[1].field = "options" /\ itemErrors[2].field = "explanation"

----------------------------------------------------------------------------
(* SpecFallback: create_fallback_mcqs applied to one source text *)

MaxWords == 4
MaxAsked == 5

\* the tokens source texts are made of: two that qualify, one too short, one
\* that is not purely alphabetic
TokenPalette == {Word1, Word2, ShortWord, MixedWord}

\* the ways tokens are laid out: one blank, one newline, or two blanks with
\* blanks around the whole text
Layouts == {"blank", "newline", "wide"}

Separator(layout) ==
    CASE layout = "blank" -> <<" ">>
      [] layout = "newline" -> <<"\n">>
      [] layout = "wide" -> <<" ", " ">>

RECURSIVE Join(_, _)
Join(words, sep) ==
    IF words = <<>> THEN <<>>
    ELSE IF Len(words) = 1 THEN words[1]
    ELSE words[1] \o sep \o Join(Tail(words), sep)

LayOut(words, layout) ==
    IF layout = "wide"
    THEN <<" ">> \o Join(words, Separator(layout)) \o <<"\n">>
    ELSE Join(words, Separator(layout))

\* more qualifying tokens than important_words keeps
ManyTokens ==
    [i \in 1..(MaxImportantWords + 1) |->
        IF i % 4 = 1 THEN Word1 ELSE IF i % 4 = 2 THEN Word2
        ELSE IF i % 4 = 3 THEN Word3 ELSE Word4]

TokenLists ==
    UNION {[1..k -> TokenPalette] : k \in 0..MaxWords} \cup {ManyTokens}

\* the arguments of one call; tokens records what the text was made of
FallbackInputs ==
    {[tokens |-> ws, text |-> LayOut(ws, lay), difficulty |-> d, num_questions |-> n] :
        ws \in TokenLists, lay \in Layouts, d \in {"easy", "hard"},
        n \in (0 - 1)..MaxAsked}

InitFallback ==
    /\ fbArg \in FallbackInputs
    /\ fbResult = <<>>
    /\ fbPc = "input"
    /\ ItemIdle /\ ListIdle /\ MainIdle
    /\ TextIdle /\ WorkflowIdle /\ ParseIdle

CallFallback ==
    /\ fbPc = "input"
    /\ fbResult' = create_fallback_mcqs(fbArg.text, fbArg.difficulty, fbArg.num_questions)
    /\ fbPc' = "done"
    /\ UNCHANGED <<fbArg, itemVars, listVars, mainVars, textVars, wfVars, parseVars>>

NextFallback == CallFallback

SpecFallback == InitFallback /\ [][NextFallback]_vars

----------------------------------------------------------------------------
(* Properties of create_fallback_mcqs *)

FallbackDone == fbPc = "done"

\* the tokens that are purely alphabetic and longer than five characters
Qualifying(tokens) ==
    SelectSeq(tokens, LAMBDA w : Len(w) >= 6 /\ \A i \in 1..Len(w) : w[i] \in Letters)

\* w occurs in s
Contains(s, w) == \E i \in 1..(Len(s) - Len(w) + 1) : SubSeq(s, i, i + Len(w) - 1) = w

Least(S) == CHOOSE x \in S : \A y \in S : x <= y

\* C12: create_fallback_mcqs returns exactly min(numQuestions, 3, q) items,
\* none when numQuestions <= 0, where q is the number of purely alphabetic
\* tokens longer than 5 characters, capped at the first 10; item i refers to
\* the i-th such token, has exactly four options and correct_answer "A"; and
\* the result is the same for every difficulty.
C12_FallbackCount ==
    FallbackDone =>
        LET words == Qualifying(fbArg.tokens)
            q == Least({Len(words), 10})
            n == fbArg.num_questions
            expected == IF n <= 0 THEN 0 ELSE Least({n, 3, q})
        IN  /\ Len(fbResult) = expected
            /\ \A i \in 1..Len(fbResult) :
                  /\ DOMAIN fbResult[i] = {"question", "options", "correct_answer", "explanation"}
                  /\ Contains(fbResult[i]["question"].s, words[i])
                  /\ Len(fbResult[i]["options"].l) = 4
                  /\ \A k \in 1..4 : Contains(fbResult[i]["options"].l[k].s, words[i])
                  /\ fbResult[i]["correct_answer"] = PyStr(<<"A">>)
            /\ \A d \in Difficulties :
                  create_fallback_mcqs(fbArg.text, d, fbArg.num_questions) = fbResult

\* five items were asked of a text whose first token does not qualify and
\* whose other three do: three came back, the first about the second token
C12_Witness ==
    /\ FallbackDone
    /\ fbArg.num_questions = 5
    /\ Len(fbArg.tokens) = 4
    /\ Len(Qualifying(fbArg.tokens)) = 3
    /\ Qualifying(<<fbArg.tokens[1]>>) = <<>>
    /\ Len(fbResult) = 3
    /\ Contains(fbResult[1]["question"].s, fbArg.tokens[2])

\* C18: every item create_fallback_mcqs produces passes the per-item check,
\* so the list it hands on is never partly valid: when non-empty the set-level
\* check accepts it with no error and no warning, and when empty the set-level
\* check rejects it with the single error 'No MCQs provided'.
C18_FallbackValidates ==
    FallbackDone =>
        LET r == validate_mcq_list(ArgList(fbResult))
        IN  /\ \A i \in 1..Len(fbResult) : validate_mcq_structure(fbResult[i]) = <<>>
            /\ ~r.raised
            /\ r.invalid_questions = 0
            /\ IF fbResult = <<>>
               THEN ~r.valid /\ r.errors = <<ListError(ErrNoMcqs)>> /\ r.warnings = <<>>
               ELSE r.valid /\ r.errors = <<>> /\ r.warnings = <<>>
                      /\ r.valid_questions = Len(fbResult)

\* two items were produced from a text laid out on separate lines
C18_Witness ==
    /\ FallbackDone
    /\ Len(fbResult) = 2
    /\ \E i \in 1..Len(fbArg.text) : fbArg.text[i] = "\n"
    /\ validate_mcq_list(ArgList(fbResult)).valid

----------------------------------------------------------------------------
(* validate.py: TextValidator.validate_text *)

(* The thresholds are far beyond what a sequence of characters can hold      *)
(* here, so a text is kept by its layout: lead blank characters, then body   *)
(* characters of which the first and the last are not blank, then trail      *)
(* blank characters. A text of blanks only has body = 0.                     *)

MIN_TEXT_LENGTH == 100
MAX_TEXT_LENGTH == 100000
ShortTextLen == 500
LongTextLen == 50000

ErrTextShort == "Text too short"
ErrTextLong == "Text too long"
WarnShortText == "Short text detected. May result in fewer quality questions"
WarnLongText == "Very long text detected. Consider splitting into sections"

TextOf(lead, body, trail) == [t |-> "str", lead |-> lead, body |-> body, trail |-> trail]
NotText(t) == [t |-> t, lead |-> 0, body |-> 0, trail |-> 0]

\* len(text)
TextLength(x) == x.lead + x.body + x.trail

\* the trimming left out
TextStrip_Mut(x) == x

\* text.strip(): the blanks at both ends go; of a text of blanks nothing stays
TextStrip(x) ==
    IF x.body = 0 THEN TextOf(0, 0, 0) ELSE TextOf(0, x.body, 0)

\* the message and the length it quotes
TextError(msg, n) == [msg |-> msg, len |-> n]

\* the call ended in an exception: there is no result
TextRaised ==
    [raised |-> TRUE, valid |-> FALSE, errors |-> <<>>, warnings |-> <<>>, length |-> 0]

\* validate.py:158-167; word_count and line_count depend on the characters,
\* which the layout does not keep, and nothing reads them
NewTextResult(x) ==
    [raised |-> FALSE, valid |-> TRUE, errors |-> <<>>, warnings |-> <<>>,
     length |-> TextLength(x)]

\* validate.py:177-179
CheckMinLength(result, n) ==
    IF n < MIN_TEXT_LENGTH
    THEN [result EXCEPT !.valid = FALSE, !.errors = Append(@, TextError(ErrTextShort, n))]
    ELSE result

\* validate.py:182-184
CheckMaxLength(result, n) ==
    IF n > MAX_TEXT_LENGTH
    THEN [result EXCEPT !.valid = FALSE, !.errors = Append(@, TextError(ErrTextLong, n))]
    ELSE result

\* validate.py:187-188
WarnShort(result, n) ==
    IF n < ShortTextLen THEN [result EXCEPT !.warnings = Append(@, WarnShortText)]
    ELSE result

\* validate.py:190-191
WarnLong(result, n) ==
    IF n > LongTextLen THEN [result EXCEPT !.warnings = Append(@, WarnLongText)]
    ELSE result

\* validate.py:156-193; for a value that is no str, building the stats at
\* lines 163-165 raises before the isinstance test of line 169 is reached
validate_text(x) ==
    IF x.t # "str" THEN TextRaised
    ELSE LET n == TextLength(TextStrip(x))
         IN  WarnLong(WarnShort(CheckMaxLength(CheckMinLength(NewTextResult(x), n), n), n), n)

----------------------------------------------------------------------------
(* SpecText: validate_text applied to one value *)

MaxDelta == 2

\* body lengths: none, the 50 characters of the example, and those within
\* MaxDelta of each threshold
BodySizes ==
    {0, 50} \cup
    {t + d : t \in {MIN_TEXT_LENGTH, ShortTextLen, LongTextLen, MAX_TEXT_LENGTH},
             d \in (0 - MaxDelta)..MaxDelta}

TextInputs ==
    {TextOf(l, b, r) : l \in 0..MaxPad, b \in BodySizes, r \in 0..MaxPad}
    \cup {NotText("null"), NotText("list")}

InitText ==
    /\ textArg \in TextInputs
    /\ textResult = <<>>
    /\ textPc = "input"
    /\ ItemIdle /\ ListIdle /\ MainIdle
    /\ FallbackIdle /\ WorkflowIdle /\ ParseIdle

CheckText ==
    /\ textPc = "input"
    /\ textResult' = validate_text(textArg)
    /\ textPc' = "checked"
    /\ UNCHANGED <<textArg, itemVars, listVars, mainVars, fbVars, wfVars, parseVars>>

NextText == CheckText

SpecText == InitText /\ [][NextText]_vars

----------------------------------------------------------------------------
(* Properties of validate_text *)

TextChecked == textPc = "checked"

\* C13: with L the length of the text once trimmed, validate_text returns
\* valid exactly when 100 <= L <= 100000, with exactly one error when L < 100,
\* exactly one when L > 100000 and none otherwise; it adds the short-text
\* warning exactly when L < 500 and the long-text warning exactly when
\* L > 50000, and warnings do not touch valid. A text of 50 characters is
\* rejected; one of 100000 passes with no error and the long-text warning.
C13_TextLength ==
    (TextChecked /\ textArg.t = "str") =>
        LET L == textArg.body
            r == textResult
        IN  /\ ~r.raised
            /\ r.valid <=> (100 <= L /\ L <= 100000)
            /\ L < 100 => (Len(r.errors) = 1 /\ r.errors[1].msg = ErrTextShort)
            /\ L > 100000 => (Len(r.errors) = 1 /\ r.errors[1].msg = ErrTextLong)
            /\ (100 <= L /\ L <= 100000) => r.errors = <<>>
            /\ (\E k \in 1..Len(r.warnings) : r.warnings[k] = WarnShortText) <=> L < 500
            /\ (\E k \in 1..Len(r.warnings) : r.warnings[k] = WarnLongText) <=> L > 50000
            /\ Len(r.warnings) <= 1
            /\ L = 50 => ~r.valid
            /\ L = 100000 => (r.valid /\ r.errors = <<>> /\ r.warnings = <<WarnLongText>>)

\* a text of 100000 characters between blanks, 100002 in all, was accepted
\* with the long-text warning
C13_Witness ==
    /\ TextChecked /\ textArg.t = "str"
    /\ textArg.body = 100000 /\ textArg.lead = 1 /\ textArg.trail = 1
    /\ textResult.valid /\ textResult.warnings = <<WarnLongText>>

----------------------------------------------------------------------------
(* validate.py: WorkflowValidator.validate_workflow_inputs *)

MinQuestions == 1
MaxQuestions == 20

ErrFilename == "Filename is required and must be a string"
ErrDifficulty == "Invalid difficulty"
ErrCountRange == "Number of questions must be between 1 and 20"
ErrCountInt == "Number of questions must be a valid integer"

PyNone == [t |-> "null", s |-> <<>>, l |-> <<>>]

\* bool(v): an empty string and None are false, the number PyInt stands for
\* is not zero
Truthy(v) ==
    CASE v.t = "str" -> v.s # <<>>
      [] v.t = "null" -> FALSE
      [] OTHER -> TRUE

valid_difficulties == {"easy", "medium", "hard"}

\* validate.py:201-210
NewWorkflowResult(filename, difficulty, num_questions) ==
    [raised |-> FALSE, valid |-> TRUE, errors |-> <<>>, warnings |-> <<>>,
     parameters |-> [filename |-> filename, difficulty |-> difficulty,
                     num_questions |-> num_questions]]

Fail(result, msg) == [result EXCEPT !.valid = FALSE, !.errors = Append(@, msg)]

\* validate.py:213-215
CheckFilename(result, filename) ==
    IF ~Truthy(filename) \/ filename.t # "str" THEN Fail(result, ErrFilename) ELSE result

\* validate.py:218-221
CheckDifficulty(result, difficulty) ==
    IF difficulty \notin valid_difficulties THEN Fail(result, ErrDifficulty) ELSE result

\* the upper limit taken as exclusive
CheckCount_Mut(result, num_questions) ==
    LET num_q == ParseInt(num_questions)
    IN  IF ~num_q.ok THEN Fail(result, ErrCountInt)
        ELSE IF num_q.n < MinQuestions \/ num_q.n >= MaxQuestions
        THEN Fail(result, ErrCountRange)
        ELSE result

\* validate.py:224-231; int() of a str either returns or raises ValueError
CheckCount(result, num_questions) ==
    LET num_q == ParseInt(num_questions)
    IN  IF ~num_q.ok THEN Fail(result, ErrCountInt)
        ELSE IF num_q.n < MinQuestions \/ num_q.n > MaxQuestions
        THEN Fail(result, ErrCountRange)
        ELSE result

\* validate.py:199-233
validate_workflow_inputs(filename, difficulty, num_questions) ==
    CheckCount(
        CheckDifficulty(
            CheckFilename(NewWorkflowResult(filename, difficulty, num_questions), filename),
            difficulty),
        num_questions)

----------------------------------------------------------------------------
(* SpecWorkflow: validate_workflow_inputs applied to one triple *)

MaxCount == 21

\* the decimal digits of a natural number
RECURSIVE FormatNat(_)
FormatNat(k) ==
    IF k < 10 THEN <<Digits[k + 1]>> ELSE Append(FormatNat(k \div 10), Digits[(k % 10) + 1])

\* str(k)
FormatInt(k) == IF k < 0 THEN <<"-">> \o FormatNat(0 - k) ELSE FormatNat(k)

\* a count as typed, with what it was typed from: a whole number written in
\* decimal, bare or between blanks, or something that is no whole number
Counts ==
    {[raw |-> FormatInt(k), int |-> TRUE, n |-> k] : k \in (0 - 2)..MaxCount}
    \cup {[raw |-> <<" ">> \o FormatInt(k) \o <<"\n">>, int |-> TRUE, n |-> k] :
             k \in {0, 1, MaxQuestions, MaxQuestions + 1}}
    \cup {[raw |-> <<"+">> \o FormatInt(MaxQuestions), int |-> TRUE, n |-> MaxQuestions]}
    \cup {[raw |-> r, int |-> FALSE, n |-> 0] :
             r \in {<<>>, <<" ">>, <<"a", "b", "c">>, <<"3", ".", "5">>, <<"1", " ", "0">>,
                    <<"-">>, <<"5", "a">>}}

Filenames ==
    {PyStr(<<>>), PyStr(<<"q", ".", "p", "d", "f">>), PyStr(<<" ">>), PyNone, PyInt}

DifficultyArgs == Difficulties \cup {"", "Easy"}

WorkflowInputs ==
    {[filename |-> f, difficulty |-> d, num_questions |-> c.raw, count |-> c] :
        f \in Filenames, d \in DifficultyArgs, c \in Counts}

InitWorkflow ==
    /\ wfArg \in WorkflowInputs
    /\ wfResult = <<>>
    /\ wfPc = "input"
    /\ ItemIdle /\ ListIdle /\ MainIdle
    /\ FallbackIdle /\ TextIdle /\ ParseIdle

CheckWorkflow ==
    /\ wfPc = "input"
    /\ wfResult' = validate_workflow_inputs(wfArg.filename, wfArg.difficulty,
                                            wfArg.num_questions)
    /\ wfPc' = "checked"
    /\ UNCHANGED <<wfArg, itemVars, listVars, mainVars, fbVars, textVars, parseVars>>

NextWorkflow == CheckWorkflow

SpecWorkflow == InitWorkflow /\ [][NextWorkflow]_vars

----------------------------------------------------------------------------
(* Properties of validate_workflow_inputs *)

WorkflowChecked == wfPc = "checked"

Has(errs, msg) == \E k \in 1..Len(errs) : errs[k] = msg

Count01(b) == IF b THEN 1 ELSE 0

\* C14: validate_workflow_inputs returns valid exactly when filename is a
\* non-empty string, difficulty is one of easy, medium, hard and the count
\* parses as an integer n with 1 <= n <= 20; all three checks are made
\* whatever the others found, each failing check adds exactly one error, and
\* a count that is no integer gives an error in the result, never an
\* exception.
C14_WorkflowInputs ==
    WorkflowChecked =>
        LET f == wfArg.filename
            c == wfArg.count
            r == wfResult
            fileOK == f.t = "str" /\ Len(f.s) >= 1
            diffOK == wfArg.difficulty \in {"easy", "medium", "hard"}
            countOK == c.int /\ 1 <= c.n /\ c.n <= 20
        IN  /\ ~r.raised
            /\ r.valid <=> (fileOK /\ diffOK /\ countOK)
            /\ Len(r.errors) = Count01(~fileOK) + Count01(~diffOK) + Count01(~countOK)
            /\ Has(r.errors, ErrFilename) <=> ~fileOK
            /\ Has(r.errors, ErrDifficulty) <=> ~diffOK
            /\ Has(r.errors, ErrCountInt) <=> ~c.int
            /\ Has(r.errors, ErrCountRange) <=> (c.int /\ ~countOK)

\* all three checks failed at once, the count being no integer: three errors
C14_Witness ==
    /\ WorkflowChecked
    /\ wfArg.filename = PyStr(<<>>)
    /\ wfArg.difficulty = "extreme"
    /\ ~wfArg.count.int
    /\ Len(wfResult.errors) = 3
    /\ ~wfResult.valid

----------------------------------------------------------------------------
(* SpecParse: the parsing block of either generator applied to a JSON array *)
(* as it stands and to the same array inside a wrapping                      *)

MaxElems == 3

\* what arrays are made of: the text of an element and the value it decodes to
ElementPalette ==
    {[text |-> <<"M">>, val |-> DecodedObject],
     [text |-> <<"7">>, val |-> PyInt],
     [text |-> <<"[", "]">>, val |-> PyList(<<>>)],
     [text |-> <<"[", "M", "]">>, val |-> PyList(<<DecodedObject>>)]}

ElementLists == UNION {[1..k -> ElementPalette] : k \in 0..MaxElems}

\* json.dumps of the array, compact or with a blank after each comma and a
\* newline inside the brackets
Render(elems, spaced) ==
    LET texts == [i \in 1..Len(elems) |-> elems[i].text]
    IN  IF spaced
        THEN <<"[", "\n">> \o Join(texts, <<",", " ">>) \o <<"\n", "]">>
        ELSE <<"[">> \o Join(texts, <<",">>) \o <<"]">>

Prose == <<"p", "p">>

Wrappings ==
    {"fence_json", "fence", "fence_json_inline", "fence_inline",
     "prose_before", "prose_after", "prose_around"}

FenceWrappings == {"fence_json", "fence", "fence_json_inline", "fence_inline"}
ProseWrappings == {"prose_before", "prose_after", "prose_around"}

\* the response a model gives when it wraps the array j
Wrap(j, wrapping) ==
    CASE wrapping = "fence_json" -> FenceJson \o <<"\n">> \o j \o <<"\n">> \o Fence
      [] wrapping = "fence" -> Fence \o <<"\n">> \o j \o <<"\n">> \o Fence
      [] wrapping = "fence_json_inline" -> FenceJson \o j \o Fence
      [] wrapping = "fence_inline" -> Fence \o j \o Fence
      [] wrapping = "prose_before" -> Prose \o <<" ">> \o j
      [] wrapping = "prose_after" -> j \o <<"\n">> \o Prose
      [] wrapping = "prose_around" -> Prose \o <<" ">> \o j \o <<" ">> \o Prose

ParseInputs ==
    {[backend |-> b, array |-> [i \in 1..Len(e) |-> e[i].val], json |-> Render(e, sp),
      wrapping |-> w, text |-> Wrap(Render(e, sp), w)] :
        b \in {"api", "hf"}, e \in ElementLists, sp \in BOOLEAN, w \in Wrappings}

InitParse ==
    /\ parseArg \in ParseInputs
    /\ parseResult = <<>>
    /\ parsePc = "input"
    /\ ItemIdle /\ ListIdle /\ MainIdle
    /\ FallbackIdle /\ TextIdle /\ WorkflowIdle

ParseBoth ==
    /\ parsePc = "input"
    /\ parseResult' = [plain |-> ParseOf(parseArg.backend, Returned(parseArg.json)),
                       wrapped |-> ParseOf(parseArg.backend, Returned(parseArg.text))]
    /\ parsePc' = "parsed"
    /\ UNCHANGED <<parseArg, itemVars, listVars, mainVars, fbVars, textVars, wfVars>>

NextParse == ParseBoth

SpecParse == InitParse /\ [][NextParse]_vars

----------------------------------------------------------------------------
(* Properties of the parsing block *)

ParseDone == parsePc = "parsed"

\* the wrapped text parsed, and to the very list the array stands for
WrappedParsesToArray ==
    /\ parseResult.wrapped.ok
    /\ Len(parseResult.wrapped.mcqs) = Len(parseArg.array)
    /\ \A i \in 1..Len(parseArg.array) : parseResult.wrapped.mcqs[i] = parseArg.array[i]

\* C15: a well-formed JSON array wrapped in a leading code-fence marker, with
\* or without a language tag, and a trailing code-fence marker parses to the
\* same sequence as the array alone, equal in length and element for element,
\* on the completion-service path and on the hosted-inference path.
C15_FenceWrappedParsesSame ==
    (ParseDone /\ parseArg.wrapping \in FenceWrappings) =>
        /\ parseResult.plain.ok
        /\ parseResult.wrapped = parseResult.plain
        /\ WrappedParsesToArray

\* C16: bracket-free prose, then a well-formed JSON array, then bracket-free
\* prose (either of them possibly absent) parses to that array on the
\* completion-service path and on the hosted-inference path.
C16_ProseAroundArrayParses ==
    (ParseDone /\ parseArg.wrapping \in ProseWrappings) => WrappedParsesToArray

\* what does hold: the hosted-inference path parses every wrapping to the
\* array, and the completion-service path does so for a fence opened with the
\* json tag
ToleratedWrappings ==
    (ParseDone /\ (parseArg.backend = "hf"
                     \/ parseArg.wrapping \in {"fence_json", "fence_json_inline"})) =>
        /\ parseResult.wrapped = parseResult.plain
        /\ WrappedParsesToArray

====
